---- MODULE Spec2Model ----
(***************************************************************************)
(* Model of the MDTF diagnostics driver core:                              *)
(*   - src/src/environment_manager.py : EnvironmentManager.setUp / run     *)
(*     and its two subclasses (NoneEnvironmentManager,                     *)
(*     CondaEnvironmentManager);                                           *)
(*   - src/src/shared_diagnostic.py   : Diagnostic.setUp and the           *)
(*     dependency resolver Diagnostic._check_for_varlist_files;            *)
(*   - src/src/util.py                : makefilepath.                      *)
(*                                                                         *)
(* Strings that the code builds (paths, shell commands) are modelled as    *)
(* sequences of string tokens, so that concatenation and ' && '.join are   *)
(* computed, not assumed.  Python's None is the string "None".             *)
(*                                                                         *)
(* Two specifications:                                                     *)
(*   Spec        - one batch run: EnvironmentManager.setUp, run, tearDown. *)
(*   SpecResolve - _check_for_varlist_files on every requirement list up   *)
(*                 to the bounds, one loop iteration per step.             *)
(***************************************************************************)
EXTENDS Integers, Sequences, FiniteSets, TLC

VARIABLES
    \* ---- batch (EnvironmentManager) ----
    config,         \* the settings.yml contents of the pods of the batch, in order
    os_environ,     \* os.environ of the process: variable name -> value
    manager,        \* which subclass of EnvironmentManager: "None" | "Conda"
    test_mode,      \* EnvironmentManager.test_mode
    pods,           \* EnvironmentManager.pods: sequence of Diagnostic objects
    envs,           \* EnvironmentManager.envs
    pc,             \* position of the batch driver
    i,              \* index of the pod the current loop of run() is at
    create_calls,   \* history: how often create_environment was called, per env name
    conda_creating, \* env names whose 'conda env create' subprocess was started
                    \* (nothing waits for it: it is in progress from then on)
    create_failed,  \* history: env names whose creation failed in create_environment
    destroy_calls,  \* history: how often destroy_environment was called, per env name
    popen_calls,    \* history: subprocess.Popen calls made by run()
    popen_env,      \* history: the env argument of the latest of these calls
    open_calls,     \* history: open() calls made by run() for the log files
    \* ---- filesystem ----
    files,          \* the data files that exist (set of paths)
    \* ---- one call of Diagnostic._check_for_varlist_files ----
    rpc,            \* position in the call: "off" | "loop" | "returned" | "returned_again"
    varlist_arg,    \* the varlist argument
    idx,            \* number of items of varlist_arg the for loop has handled
    found_list,     \* local found_list
    missing_list,   \* local missing_list
    ret,            \* the returned dict
    \* ---- util.Singleton ----
    instances,      \* _Singleton._instances: class -> instance (NoInstance: no key)
    created,        \* history: how many instances were created so far
    first_instance, \* history: per class, the instance created by the first
                    \* construction that returned since the class's last _reset
    returned,       \* history: per class, the ids of the instances constructions
                    \* returned since the class's last _reset
    result,         \* history: the last call and what it returned
    \* ---- util.BiDict ----
    bidict          \* one BiDict object: [dict |-> key -> value, inverse |-> value -> list of keys]

vars == <<config, os_environ, manager, test_mode, pods, envs, pc, i, create_calls,
          conda_creating, create_failed, destroy_calls, popen_calls, popen_env, open_calls, files, rpc, varlist_arg, idx, found_list, missing_list, ret,
          instances, created, first_instance, returned, result, bidict>>

batch_vars == <<config, os_environ, manager, test_mode, pods, envs, pc, i, create_calls,
                conda_creating, create_failed, destroy_calls, popen_calls, popen_env,
                open_calls>>

resolve_vars == <<rpc, varlist_arg, idx, found_list, missing_list, ret>>

util_vars == <<instances, created, first_instance, returned, result>>

\* ------------------------------------------------------------------------
\* Bounds of the model

\* how many Singleton instances are created at most
MaxInstances == 3

\* number of pods in the batch
NPods == 2

\* longest requirement list given to the resolver
MaxVars == 2

\* longest alternates list of one requirement
MaxAlts == 2

\* values of name_in_model (and of the entries of alternates)
VarNames == {"x", "y"}

\* os.environ['CASENAME'], os.environ['DATADIR']
CASENAME == "case"

DATADIR == "/data"

None == "None"

\* the values pod.env takes: the default '' and the names set_pod_env assigns
EnvNames == {"", "_MDTF-diagnostics-R", "_MDTF-diagnostics-NCL", "_MDTF-diagnostics-python"}

\* ------------------------------------------------------------------------
\* util.makefilepath: datadir+"/"+timefreq+"/"+casename+"."+varname+"."+timefreq+".nc"

makefilepath(varname, timefreq, casename, datadir) ==
    <<datadir, "/", timefreq, "/", casename, ".", varname, ".", timefreq, ".nc">>

\* os.path.isfile against the filesystem fs
isfile(filepath, fs) == filepath \in fs

\* every data file path the model's requirements can name
AllPaths == {makefilepath(n, "mon", CASENAME, DATADIR) : n \in VarNames}

\* Python truthiness filter [x for x in lst if x]: drops empty strings
remove_empty(lst) == SelectSeq(lst, LAMBDA x : x # <<>>)

\* ------------------------------------------------------------------------
\* Diagnostic._check_for_varlist_files (shared_diagnostic.py:240-289)
\*
\* A varlist item is the dict _parse_pod_varlist leaves behind: name_in_model,
\* freq, required, alternates.  has_alternates is FALSE for a dict whose
\* 'alternates' key was deleted (line 278).

RECURSIVE check_for_varlist_files(_, _)

\* mutant: the copy keeps the original name (line 277 dropped)
RECURSIVE check_alternates_samename(_, _, _)
check_alternates_samename(item, alt_list, fs) ==
    IF alt_list = <<>> THEN [found |-> <<>>, missing |-> <<>>]
    ELSE LET new_var == [item EXCEPT !.has_alternates = FALSE,
                                     !.alternates = <<>>]
             new_files == check_for_varlist_files(<<new_var>>, fs)
             rest == check_alternates_samename(item, Tail(alt_list), fs)
         IN [found |-> new_files.found_files \o rest.found,
             missing |-> new_files.missing_files \o rest.missing]

\* mutant: the copy keeps the alternates of the entry (line 278 dropped)
new_var_keeps_alternates(item, alt_item) == [item EXCEPT !.name_in_model = alt_item]

\* lines 276-278: the dict the recursive call is given, a copy of the entry
\* with its name replaced and its 'alternates' key deleted
new_var_of(item, alt_item) ==
    [item EXCEPT !.name_in_model = alt_item,
                 !.has_alternates = FALSE,
                 !.alternates = <<>>]

\* mutant: the loop over alt_list stops at the first alternate that is found
RECURSIVE check_alternates_first_found(_, _, _)
check_alternates_first_found(item, alt_list, fs) ==
    IF alt_list = <<>> THEN [found |-> <<>>, missing |-> <<>>]
    ELSE LET new_files == check_for_varlist_files(<<new_var_of(item, Head(alt_list))>>, fs)
             rest == IF new_files.found_files # <<>>
                     THEN [found |-> <<>>, missing |-> <<>>]
                     ELSE check_alternates_first_found(item, Tail(alt_list), fs)
         IN [found |-> new_files.found_files \o rest.found,
             missing |-> new_files.missing_files \o rest.missing]

\* for alt_item in alt_list (lines 274-282): each alternate is checked as a
\* copy of the item with its name replaced and its alternates removed; what
\* the recursive calls return is appended, found and missing alike.
RECURSIVE check_alternates(_, _, _)
check_alternates(item, alt_list, fs) ==
    IF alt_list = <<>> THEN [found |-> <<>>, missing |-> <<>>]
    ELSE LET new_var == new_var_of(item, Head(alt_list))
             new_files == check_for_varlist_files(<<new_var>>, fs)
             rest == check_alternates(item, Tail(alt_list), fs)
         IN [found |-> new_files.found_files \o rest.found,
             missing |-> new_files.missing_files \o rest.missing]

\* the alternates branch of the loop body (lines 271-282)
look_for_alternatives(item, fs) == check_alternates(item, item.alternates, fs)

\* mutant: a missing required file without alternates is reported but not
\* recorded (line 270 dropped)
check_item_norecord(item, fs) ==
    LET filepath == makefilepath(item.name_in_model, item.freq, CASENAME, DATADIR)
    IN IF isfile(filepath, fs) THEN [found |-> <<filepath>>, missing |-> <<>>]
       ELSE IF ~item.required THEN [found |-> <<>>, missing |-> <<>>]
       ELSE IF ~(item.has_alternates /\ Len(item.alternates) > 0)
            THEN [found |-> <<>>, missing |-> <<>>]
       ELSE look_for_alternatives(item, fs)

\* mutant: the alternates are looked at before the required flag
check_item_altsfirst(item, fs) ==
    LET filepath == makefilepath(item.name_in_model, item.freq, CASENAME, DATADIR)
    IN IF isfile(filepath, fs) THEN [found |-> <<filepath>>, missing |-> <<>>]
       ELSE IF item.has_alternates /\ Len(item.alternates) > 0
            THEN look_for_alternatives(item, fs)
       ELSE IF ~item.required THEN [found |-> <<>>, missing |-> <<>>]
       ELSE [found |-> <<>>, missing |-> <<filepath>>]

\* one iteration of "for item in varlist" (lines 257-282): what it appends to
\* found_list and to missing_list
check_item(item, fs) ==
    LET filepath == makefilepath(item.name_in_model, item.freq, CASENAME, DATADIR)
    IN IF isfile(filepath, fs) THEN [found |-> <<filepath>>, missing |-> <<>>]
       ELSE IF ~item.required THEN [found |-> <<>>, missing |-> <<>>]
       ELSE IF ~(item.has_alternates /\ Len(item.alternates) > 0)
            THEN [found |-> <<>>, missing |-> <<filepath>>]
       ELSE look_for_alternatives(item, fs)

\* the for loop over the whole varlist, from empty found_list / missing_list
RECURSIVE check_items(_, _)
check_items(varlist, fs) ==
    IF varlist = <<>> THEN [found |-> <<>>, missing |-> <<>>]
    ELSE LET first == check_item(Head(varlist), fs)
             rest == check_items(Tail(varlist), fs)
         IN [found |-> first.found \o rest.found,
             missing |-> first.missing \o rest.missing]

\* the dict the method returns (lines 286-289)
files_dict(found, missing) ==
    [found_files |-> remove_empty(found), missing_files |-> remove_empty(missing)]

check_for_varlist_files(varlist, fs) ==
    LET lists == check_items(varlist, fs)
    IN files_dict(lists.found, lists.missing)

\* line 271: the loop body reaches the else branch for the item
enters_alternates(item, fs) ==
    /\ ~isfile(makefilepath(item.name_in_model, item.freq, CASENAME, DATADIR), fs)
    /\ item.required
    /\ item.has_alternates /\ Len(item.alternates) > 0

\* how many calls of _check_for_varlist_files (line 280) are nested below a
\* call with this varlist; the count stops at fuel
RECURSIVE call_depth(_, _, _)
call_depth(varlist, fs, fuel) ==
    IF fuel = 0 THEN 0
    ELSE LET nested == {1 + call_depth(<<new_var_of(varlist[k], varlist[k].alternates[a])>>,
                                       fs, fuel - 1) :
                           <<k, a>> \in {<<k, a>> \in (1..Len(varlist)) \X (1..MaxAlts) :
                                            /\ enters_alternates(varlist[k], fs)
                                            /\ a <= Len(varlist[k].alternates)}}
         IN IF nested = {} THEN 0
            ELSE CHOOSE d \in nested : \A e \in nested : e <= d

\* ------------------------------------------------------------------------
\* What a call does to objects that outlive it
\*
\* The two dicts the alternates loop works with (lines 272-278): item, the
\* entry of the caller's varlist, and new_var, the dict the recursive call is
\* given.  objs is [item |-> dict, new_var |-> dict].

\* mutant: new_var = item, so new_var is the entry itself and every write to
\* new_var is a write to the entry
RECURSIVE alternates_loop_objects_aliased(_, _)
alternates_loop_objects_aliased(objs, alt_list) ==
    IF alt_list = <<>> THEN objs
    ELSE LET named == [objs.item EXCEPT !.name_in_model = Head(alt_list)]
             deleted == [named EXCEPT !.has_alternates = FALSE, !.alternates = <<>>]
         IN alternates_loop_objects_aliased([item |-> deleted, new_var |-> deleted],
                                            Tail(alt_list))

\* line 276: new_var = item.copy() is a new dict with the entry's settings;
\* line 277 and line 278 write to new_var
RECURSIVE alternates_loop_objects(_, _)
alternates_loop_objects(objs, alt_list) ==
    IF alt_list = <<>> THEN objs
    ELSE LET copied == [objs EXCEPT !.new_var = objs.item]
             named == [copied EXCEPT !.new_var.name_in_model = Head(alt_list)]
             deleted == [named EXCEPT !.new_var.has_alternates = FALSE,
                                      !.new_var.alternates = <<>>]
         IN alternates_loop_objects(deleted, Tail(alt_list))

\* the entry of the varlist as one iteration of "for item in varlist" leaves
\* it: the alternates loop is the only place that writes to a dict
item_after(item, fs) ==
    LET filepath == makefilepath(item.name_in_model, item.freq, CASENAME, DATADIR)
    IN IF isfile(filepath, fs) \/ ~item.required
          \/ ~(item.has_alternates /\ Len(item.alternates) > 0)
       THEN item
       ELSE alternates_loop_objects([item |-> item, new_var |-> item],
                                    item.alternates).item

\* the caller's varlist after the call
varlist_after(varlist, fs) == [k \in 1..Len(varlist) |-> item_after(varlist[k], fs)]

\* mutant: found_list and missing_list outlive the call (they are kept from
\* the call before)
entry_lists_kept(found, missing) == [found |-> found, missing |-> missing]

\* lines 255-256: found_list = [], missing_list = [] at every entry, whatever
\* a call before left in its own found_list and missing_list
entry_lists(found, missing) == [found |-> <<>>, missing |-> <<>>]

\* ------------------------------------------------------------------------
\* The requirement lists the resolver is checked on

AltLists == UNION {[1..n -> VarNames] : n \in 0..MaxAlts}

Items == [name_in_model : VarNames, freq : {"mon"}, required : BOOLEAN,
          has_alternates : {TRUE}, alternates : AltLists]

Varlists == UNION {[1..n -> Items] : n \in 0..MaxVars}

\* the path of a requirement's own (primary) file, and of one of its alternates
primary_path(item) == makefilepath(item.name_in_model, item.freq, CASENAME, DATADIR)

alternate_path(item, k) == makefilepath(item.alternates[k], item.freq, CASENAME, DATADIR)

Range(s) == {s[k] : k \in 1..Len(s)}

\* ------------------------------------------------------------------------
\* util.Singleton (util.py:9-39) and the two classes derived from it
\*
\* An instance is [id, attrs]: id tells objects apart, attrs are the values
\* __init__ gave its attributes.

Classes == {"PathManager", "VariableTranslator"}

\* cls not in cls._instances
NoInstance == [id |-> 0, attrs |-> <<>>]

\* PathManager._root_pathnames (lines 46-49)
root_pathnames == <<"CODE_ROOT", "OBS_DATA_ROOT", "MODEL_DATA_ROOT", "WORKING_DIR", "OUTPUT_DIR">>

\* arg_dict arguments: the default {}, two that have every root path, one
\* that lacks OUTPUT_DIR
ArgDicts ==
    {[v \in {} |-> <<>>],
     [v \in Range(root_pathnames) |-> <<"/a">>],
     [v \in Range(root_pathnames) |-> <<"/b">>],
     [v \in Range(root_pathnames) \ {"OUTPUT_DIR"} |-> <<"/a">>]}

\* PathManager.__init__ (lines 51-58): raises AssertionError at the first
\* root path that is not in arg_dict, unless unittest_flag
PathManager_init(arg_dict, unittest_flag) ==
    IF unittest_flag
    THEN [raised |-> FALSE,
          attrs |-> [k \in 1..Len(root_pathnames) |-> <<"TEST_", root_pathnames[k]>>]]
    ELSE IF \E k \in 1..Len(root_pathnames) : root_pathnames[k] \notin DOMAIN arg_dict
    THEN [raised |-> TRUE, attrs |-> <<>>]
    ELSE [raised |-> FALSE,
          attrs |-> [k \in 1..Len(root_pathnames) |-> arg_dict[root_pathnames[k]]]]

\* mutant: the instance is created whether or not the class has one
Singleton_call_always_new(reg, cls, init, new_id) ==
    IF init.raised
    THEN [instances |-> reg, raised |-> TRUE, returned |-> NoInstance, created |-> FALSE]
    ELSE LET inst == [id |-> new_id, attrs |-> init.attrs]
         IN [instances |-> [reg EXCEPT ![cls] = inst], raised |-> FALSE,
             returned |-> inst, created |-> TRUE]

\* _Singleton.__call__ (lines 15-18); init is what cls.__init__ does with the
\* arguments of the call, run only when the class has no instance; an
\* exception of __init__ leaves the call before the assignment
Singleton_call(reg, cls, init, new_id) ==
    IF reg[cls].id # 0
    THEN [instances |-> reg, raised |-> FALSE, returned |-> reg[cls], created |-> FALSE]
    ELSE IF init.raised
    THEN [instances |-> reg, raised |-> TRUE, returned |-> NoInstance, created |-> FALSE]
    ELSE LET inst == [id |-> new_id, attrs |-> init.attrs]
         IN [instances |-> [reg EXCEPT ![cls] = inst], raised |-> FALSE,
             returned |-> inst, created |-> TRUE]

\* VariableTranslator.__init__ (lines 106-125): without unittest_flag it calls
\* PathManager() (line 111); read_yaml raises or not (read_ok); conventions
\* are the convention names of the config files read
VariableTranslator_init(reg, unittest_flag, read_ok, conventions, new_id) ==
    LET paths == Singleton_call(reg, "PathManager",
                                PathManager_init([v \in {} |-> <<>>], FALSE), new_id)
    IN IF (~unittest_flag /\ paths.raised) \/ ~read_ok
       THEN [raised |-> TRUE, attrs |-> <<>>]
       ELSE [raised |-> FALSE, attrs |-> <<<<"CF">>>> \o conventions]

\* Singleton._reset (lines 37-39)
Singleton_reset(reg, cls) == [reg EXCEPT ![cls] = NoInstance]

\* ------------------------------------------------------------------------
\* util.BiDict (util.py:76-103)
\*
\* A dict is a function from the keys it has to their values; a list is a
\* sequence.  An operation returns the object as it leaves it.

BiKeys == {"a", "b", "c"}

BiValues == {"u", "v", "w"}

\* the ordinary dicts a BiDict is made from
BiDicts == UNION {[keyset -> BiValues] : keyset \in SUBSET BiKeys}

\* the orders "for key, value in self.items()" can give the keys of d in
ItemOrders(d) ==
    {order \in [1..Cardinality(DOMAIN d) -> DOMAIN d] :
        \A m, n \in 1..Cardinality(DOMAIN d) : order[m] = order[n] => m = n}

\* inverse.setdefault(value, []).append(key)
setdefault_append(inv, value, key) ==
    [w \in DOMAIN inv \cup {value} |->
        IF w = value
        THEN (IF value \in DOMAIN inv THEN inv[value] ELSE <<>>) \o <<key>>
        ELSE inv[w]]

\* list.remove(x): the list without the first x
RECURSIVE list_remove(_, _)
list_remove(lst, x) ==
    IF lst = <<>> THEN <<>>
    ELSE IF Head(lst) = x THEN Tail(lst)
    ELSE <<Head(lst)>> \o list_remove(Tail(lst), x)

\* del d[key]
dict_del(d, key) == [w \in DOMAIN d \ {key} |-> d[w]]

\* BiDict.__init__ (lines 85-91): the inverse is filled from the items, in
\* the order the dict gives them
RECURSIVE BiDict_inverse(_, _, _)
BiDict_inverse(d, order, inv) ==
    IF order = <<>> THEN inv
    ELSE BiDict_inverse(d, Tail(order), setdefault_append(inv, d[Head(order)], Head(order)))

BiDict_init(d, order) == [dict |-> d, inverse |-> BiDict_inverse(d, order, [w \in {} |-> <<>>])]

\* BiDict.__setitem__ (lines 93-97): the key is taken out of the list of its
\* old value (the list stays, also when it becomes empty), then the item is
\* set and the key appended to the list of the new value
BiDict_setitem(bd, key, value) ==
    LET removed == IF key \in DOMAIN bd.dict
                   THEN [bd.inverse EXCEPT ![bd.dict[key]] = list_remove(@, key)]
                   ELSE bd.inverse
    IN [dict |-> [w \in DOMAIN bd.dict \cup {key} |-> IF w = key THEN value ELSE bd.dict[w]],
        inverse |-> setdefault_append(removed, value, key)]

\* BiDict.__delitem__ (lines 99-103); self[key] raises KeyError for a key
\* that is not there and nothing is changed
BiDict_delitem(bd, key) ==
    IF key \notin DOMAIN bd.dict THEN bd
    ELSE LET value == bd.dict[key]
             lst == list_remove(IF value \in DOMAIN bd.inverse THEN bd.inverse[value]
                                ELSE <<>>, key)
             removed == [w \in DOMAIN bd.inverse \cup {value} |->
                            IF w = value THEN lst ELSE bd.inverse[w]]
         IN [dict |-> dict_del(bd.dict, key),
             inverse |-> IF lst = <<>> THEN dict_del(removed, value) ELSE removed]

\* no BiDict is used
bidict_idle == bidict = <<>>

\* no Singleton class is used
util_idle ==
    /\ instances = <<>>
    /\ created = 0
    /\ first_instance = <<>>
    /\ returned = <<>>
    /\ result = <<>>

\* no batch is run: the EnvironmentManager is never used
batch_idle ==
    /\ config = <<>>
    /\ os_environ = <<>>
    /\ manager = "None"
    /\ test_mode = FALSE
    /\ pods = <<>>
    /\ envs = {}
    /\ pc = "off"
    /\ i = 0
    /\ create_calls = [e \in EnvNames |-> 0]
    /\ conda_creating = {}
    /\ create_failed = {}
    /\ destroy_calls = [e \in EnvNames |-> 0]
    /\ popen_calls = <<>>
    /\ popen_env = <<>>
    /\ open_calls = <<>>

\* _check_for_varlist_files is not being called on its own
resolve_idle ==
    /\ rpc = "off"
    /\ varlist_arg = <<>>
    /\ idx = 0
    /\ found_list = <<>>
    /\ missing_list = <<>>
    /\ ret = None

\* ------------------------------------------------------------------------
\* SpecSingleton: constructions and _reset calls on the two Singleton classes

InitSingleton ==
    /\ bidict_idle
    /\ instances = [c \in Classes |-> NoInstance]
    /\ created = 0
    /\ first_instance = [c \in Classes |-> NoInstance]
    /\ returned = [c \in Classes |-> {}]
    /\ result = [op |-> "none", cls |-> "none", raised |-> FALSE,
                 instance |-> NoInstance, asked |-> <<>>]
    /\ batch_idle
    /\ resolve_idle
    /\ files = {}

\* what a construction of cls that gave r leaves in the history variables
construction_recorded(cls, r, asked) ==
    /\ instances' = r.instances
    /\ created' = IF r.created THEN created + 1 ELSE created
    /\ first_instance' = IF r.created /\ first_instance[cls].id = 0
                         THEN [first_instance EXCEPT ![cls] = r.returned]
                         ELSE first_instance
    /\ returned' = IF r.raised THEN returned
                   ELSE [returned EXCEPT ![cls] = @ \cup {r.returned.id}]
    /\ result' = [op |-> "construct", cls |-> cls, raised |-> r.raised,
                  instance |-> r.returned, asked |-> asked]

\* PathManager(arg_dict, unittest_flag)
Construct_PathManager ==
    /\ \E arg_dict \in ArgDicts, unittest_flag \in BOOLEAN :
          LET init == PathManager_init(arg_dict, unittest_flag)
              r == Singleton_call(instances, "PathManager", init, created + 1)
          IN /\ r.created => created < MaxInstances
             /\ construction_recorded("PathManager", r, init.attrs)
    /\ UNCHANGED <<batch_vars, resolve_vars, files, bidict>>

\* VariableTranslator(unittest_flag)
Construct_VariableTranslator ==
    /\ \E unittest_flag \in BOOLEAN, read_ok \in BOOLEAN,
          conventions \in {<<>>, <<<<"CMIP">>>>} :
          LET init == VariableTranslator_init(instances, unittest_flag, read_ok,
                                              conventions, created + 1)
              r == Singleton_call(instances, "VariableTranslator", init, created + 1)
          IN /\ r.created => created < MaxInstances
             /\ construction_recorded("VariableTranslator", r, init.attrs)
    /\ UNCHANGED <<batch_vars, resolve_vars, files, bidict>>

\* cls._reset()
Reset(cls) ==
    /\ instances' = Singleton_reset(instances, cls)
    /\ first_instance' = [first_instance EXCEPT ![cls] = NoInstance]
    /\ returned' = [returned EXCEPT ![cls] = {}]
    /\ result' = [op |-> "reset", cls |-> cls, raised |-> FALSE,
                  instance |-> NoInstance, asked |-> <<>>]
    /\ UNCHANGED <<created, batch_vars, resolve_vars, files, bidict>>

NextSingleton ==
    \/ Construct_PathManager
    \/ Construct_VariableTranslator
    \/ \E cls \in Classes : Reset(cls)

SpecSingleton == InitSingleton /\ [][NextSingleton]_vars

\* ------------------------------------------------------------------------
\* SpecBiDict: a BiDict made from an ordinary dict, then item assignments
\* and item deletions

InitBiDict ==
    /\ \E d \in BiDicts : \E order \in ItemOrders(d) : bidict = BiDict_init(d, order)
    /\ util_idle
    /\ batch_idle
    /\ resolve_idle
    /\ files = {}

\* bd[key] = value
SetItem ==
    /\ \E key \in BiKeys, value \in BiValues : bidict' = BiDict_setitem(bidict, key, value)
    /\ UNCHANGED <<batch_vars, resolve_vars, util_vars, files>>

\* del bd[key]
DelItem ==
    /\ \E key \in BiKeys : bidict' = BiDict_delitem(bidict, key)
    /\ UNCHANGED <<batch_vars, resolve_vars, util_vars, files>>

NextBiDict == SetItem \/ DelItem

SpecBiDict == InitBiDict /\ [][NextBiDict]_vars

\* ------------------------------------------------------------------------
\* SpecResolve: a call of _check_for_varlist_files, stepped by loop iteration,
\* and a second call with the same argument

InitResolve ==
    /\ rpc = "loop"
    /\ varlist_arg \in Varlists
    /\ files \in SUBSET AllPaths
    /\ idx = 0
    /\ found_list = <<>>
    /\ missing_list = <<>>
    /\ ret = None
    /\ batch_idle
    /\ util_idle
    /\ bidict_idle

\* one iteration of the for loop at line 257
LoopItem ==
    /\ rpc = "loop"
    /\ idx < Len(varlist_arg)
    /\ LET r == check_item(varlist_arg[idx + 1], files)
       IN /\ found_list' = found_list \o r.found
          /\ missing_list' = missing_list \o r.missing
    /\ varlist_arg' = [varlist_arg EXCEPT ![idx + 1] = item_after(@, files)]
    /\ idx' = idx + 1
    /\ UNCHANGED <<rpc, ret, files>>
    /\ UNCHANGED <<batch_vars, util_vars, bidict>>

\* lines 284-289: the loop is over, the dict is returned
Return ==
    /\ rpc = "loop"
    /\ idx = Len(varlist_arg)
    /\ ret' = files_dict(found_list, missing_list)
    /\ rpc' = "returned"
    /\ UNCHANGED <<varlist_arg, idx, found_list, missing_list, files>>
    /\ UNCHANGED <<batch_vars, util_vars, bidict>>

\* a second call with the same argument, the filesystem unchanged, taken as
\* one step: lines 255-289
CallAgain ==
    /\ rpc = "returned"
    /\ LET entry == entry_lists(found_list, missing_list)
           lists == check_items(varlist_arg, files)
       IN /\ found_list' = entry.found \o lists.found
          /\ missing_list' = entry.missing \o lists.missing
          /\ ret' = files_dict(entry.found \o lists.found, entry.missing \o lists.missing)
    /\ varlist_arg' = varlist_after(varlist_arg, files)
    /\ idx' = Len(varlist_arg)
    /\ rpc' = "returned_again"
    /\ UNCHANGED files
    /\ UNCHANGED <<batch_vars, util_vars, bidict>>

NextResolve == LoopItem \/ Return \/ CallAgain

SpecResolve == InitResolve /\ [][NextResolve]_vars

\* ------------------------------------------------------------------------
\* SpecResolveWide: the same call on lists over three variable names, so
\* that an absent entry can have two different alternates that are present.
\* The list is the entry under test, alone or after an entry without
\* alternates.

WideNames == VarNames \cup {"z"}

WidePaths == {makefilepath(n, "mon", CASENAME, DATADIR) : n \in WideNames}

WideItems ==
    [name_in_model : WideNames, freq : {"mon"}, required : BOOLEAN,
     has_alternates : {TRUE},
     alternates : UNION {[1..n -> WideNames] : n \in 0..MaxAlts}]

InitResolveWide ==
    /\ rpc = "loop"
    /\ \E item \in WideItems :
          \E before \in {<<>>} \cup {<<b>> : b \in {w \in WideItems : w.alternates = <<>>}} :
              varlist_arg = before \o <<item>>
    /\ files \in SUBSET WidePaths
    /\ idx = 0
    /\ found_list = <<>>
    /\ missing_list = <<>>
    /\ ret = None
    /\ batch_idle
    /\ util_idle
    /\ bidict_idle

SpecResolveWide == InitResolveWide /\ [][NextResolve]_vars

\* ------------------------------------------------------------------------
\* Diagnostic objects (shared_diagnostic.py)
\*
\* A pod is a record of the attributes Diagnostic.__init__ sets from
\* settings.yml (with the defaults of _parse_pod_settings) plus POD_WK_DIR.
\* setup_done / skipped are history fields: whether Diagnostic.setUp returned
\* for the pod and whether run() took the 'continue' of line 68.

\* PathManager.CODE_ROOT
CODE_ROOT == <<"/code">>

\* CondaEnvironmentManager.conda_env_root
conda_env_root == <<"/conda/envs">>

PodNames == <<"pod1", "pod2", "pod3", "pod4">>

\* PathManager.podPaths: os.path.join(CODE_ROOT, 'diagnostics', pod.name)
POD_CODE_DIR(pod) == CODE_ROOT \o <<"/", "diagnostics", "/", pod.name>>

\* os.path.join(MODEL_WK_DIR, pod.name)
POD_WK_DIR(pod) == <<"/wk", "/", pod.name>>

\* PathManager.podPaths: os.path.join(OBS_DATA_ROOT, pod.name)
POD_OBS_DATA(pod) == <<"/obs", "/", pod.name>>

\* util.setenv (lines 212-227) on os.environ, with overwrite=True: the value
\* is set whether or not the name is already there.  Values are strings.
setenv(varname, varvalue, environ) ==
    [n \in (DOMAIN environ) \cup {varname} |-> IF n = varname THEN varvalue ELSE environ[n]]

RECURSIVE setenv_items(_, _)
setenv_items(items, environ) ==
    IF items = <<>> THEN environ
    ELSE setenv_items(Tail(items), setenv(Head(items).key, Head(items).val, environ))

\* Diagnostic._set_pod_env_vars (lines 164-175): what it leaves in os.environ
set_pod_env_vars(pod, environ) ==
    setenv_items(pod.pod_env_vars,
        setenv("WK_DIR", POD_WK_DIR(pod),
            setenv("OBS_DATA", POD_OBS_DATA(pod),
                setenv("POD_HOME", POD_CODE_DIR(pod), environ))))

\* util.get_available_programs: {'py': 'python', 'ncl': 'ncl', 'R': 'Rscript'}
program_exts == {"py", "ncl", "R"}

get_available_programs(ext) ==
    CASE ext = "py" -> <<"python">>
      [] ext = "ncl" -> <<"ncl">>
      [] ext = "R" -> <<"Rscript">>

\* one varlist item as _parse_pod_varlist returns it
var(name, required, alternates) ==
    [name_in_model |-> name, freq |-> "mon", required |-> required,
     has_alternates |-> TRUE, alternates |-> alternates]

\* an entry of the varlist section of settings.yml, as read from the file:
\* the keys 'requirement' and 'alternates' are optional (requirement = "absent"
\* and alternates_key = FALSE when the key is not there)
raw_var(name, freq, requirement, alternates_key, alternates) ==
    [name_in_model |-> name, freq |-> freq, requirement |-> requirement,
     alternates_key |-> alternates_key, alternates |-> alternates]

\* the settings.yml contents the pods of a batch are drawn from; the last one
\* has a frequency that is not among the options
PodSettings == {
    [driver |-> <<"drv", ".", "py">>, program |-> <<>>,
     required_programs |-> <<"python">>, required_python_modules |-> <<"numpy">>,
     pod_env_vars |-> <<[key |-> "FOO", val |-> <<"1">>]>>,
     varlist |-> <<>>],
    [driver |-> <<>>, program |-> <<>>,
     required_programs |-> <<"NCL">>, required_python_modules |-> <<>>,
     pod_env_vars |-> <<>>,
     varlist |-> <<raw_var("x", "mon", "absent", FALSE, <<>>)>>],
    [driver |-> <<"drv", ".", "R">>, program |-> <<"Rscript">>,
     required_programs |-> <<"Rscript", "ncl">>, required_python_modules |-> <<>>,
     pod_env_vars |-> <<>>,
     varlist |-> <<raw_var("x", "mon", "Required", TRUE, <<"y">>)>>],
    [driver |-> <<"drv", ".", "sh">>, program |-> <<>>,
     required_programs |-> <<"python">>, required_python_modules |-> <<>>,
     pod_env_vars |-> <<>>,
     varlist |-> <<raw_var("y", "mon", "required", FALSE, <<>>),
                   raw_var("x", "mon", "optional", TRUE, <<"y">>)>>],
    [driver |-> <<"drv", ".", "py">>, program |-> <<>>,
     required_programs |-> <<"python">>, required_python_modules |-> <<>>,
     pod_env_vars |-> <<>>,
     varlist |-> <<raw_var("x", "week", "absent", FALSE, <<>>)>>] }

\* the frequency options of line 108
freq_options == {"1hr", "3hr", "6hr", "day", "mon"}

\* str.lower on the values of 'requirement' the settings use
lower_requirement(str) ==
    CASE str = "Required" -> "required"
      [] OTHER -> str

\* lines 111-118: 'required' from 'requirement' (default False), 'alternates'
\* defaults to []
parse_var(raw) ==
    var(raw.name_in_model,
        IF raw.requirement # "absent" THEN lower_requirement(raw.requirement) = "required"
        ELSE FALSE,
        IF raw.alternates_key THEN raw.alternates ELSE <<>>)

\* mutant: the frequency is not looked at (the assert of lines 108-110 dropped)
parse_pod_varlist_noassert(varlist) ==
    [raised |-> FALSE,
     varlist |-> [k \in 1..Len(varlist) |->
                     [parse_var(varlist[k]) EXCEPT !.freq = varlist[k].freq]]]

\* Diagnostic._parse_pod_varlist (lines 106-122): the assert on the frequency
\* of each entry, then the entry with 'required' and 'alternates' set
parse_pod_varlist(varlist) ==
    IF \E k \in 1..Len(varlist) : varlist[k].freq \notin freq_options
    THEN [raised |-> TRUE, varlist |-> <<>>]
    ELSE [raised |-> FALSE,
          varlist |-> [k \in 1..Len(varlist) |->
                          [parse_var(varlist[k]) EXCEPT !.freq = varlist[k].freq]]]

\* Diagnostic.__init__ raises (the AssertionError of _parse_pod_varlist, line 49)
Diagnostic_raises(settings) == parse_pod_varlist(settings.varlist).raised

\* Diagnostic.__init__ / _parse_pod_settings: defaults, then the settings
Diagnostic(pod_name, settings) ==
    [name |-> pod_name,
     driver |-> settings.driver,
     program |-> settings.program,
     required_programs |-> settings.required_programs,
     required_python_modules |-> settings.required_python_modules,
     required_ncl_scripts |-> <<>>,
     required_r_packages |-> <<>>,
     pod_env_vars |-> settings.pod_env_vars,
     varlist |-> parse_pod_varlist(settings.varlist).varlist,
     env |-> "",
     found_files |-> <<>>,
     missing_files |-> <<>>,
     process_obj |-> None,
     logfile_obj |-> None,
     setup_done |-> FALSE,
     skipped |-> FALSE,
     teardowns |-> 0]

\* os.path.isabs
isabs(path) == path # <<>> /\ Head(path) \in {"/", "/code", "/wk", "/data"}

\* Diagnostic._check_pod_driver (lines 192-238).  found is the first existing
\* candidate of the search of lines 205-215 (<<>> if none); driver_exists is
\* os.path.exists of the expanded driver path.  Returns the pod and whether an
\* assertion failed.
check_pod_driver(pod, found, driver_exists) ==
    LET driver1 == IF pod.driver = <<>> THEN found ELSE pod.driver
        driver2 == IF isabs(driver1) THEN driver1
                   ELSE POD_CODE_DIR(pod) \o <<"/">> \o driver1
        driver_ext == driver2[Len(driver2)]
    IN IF driver1 = <<>> THEN [pod |-> pod, raised |-> TRUE]
       ELSE IF ~driver_exists
            THEN [pod |-> [pod EXCEPT !.driver = driver2], raised |-> TRUE]
       ELSE IF pod.program = <<>>
            THEN IF driver_ext \notin program_exts
                 THEN [pod |-> [pod EXCEPT !.driver = driver2], raised |-> TRUE]
                 ELSE [pod |-> [pod EXCEPT !.driver = driver2,
                                           !.program = get_available_programs(driver_ext)],
                       raised |-> FALSE]
       ELSE [pod |-> [pod EXCEPT !.driver = driver2], raised |-> FALSE]

\* the candidates of the driver search (lines 205-206), as absolute paths
driver_candidates(pod) ==
    {POD_CODE_DIR(pod) \o <<"/", root, ".", ext>> :
        root \in {pod.name, "driver"}, ext \in program_exts}

\* Diagnostic.setUp (lines 142-148).  dirs_ok: POD_CODE_DIR and POD_OBS_DATA
\* exist (otherwise util.check_required_dirs calls exit()).  Returns the pod
\* and the exception that left the method ("none" if it returned).
Diagnostic_setUp(pod, fs, dirs_ok, found, driver_exists) ==
    IF ~dirs_ok THEN [pod |-> pod, exc |-> "SystemExit"]
    ELSE LET d == check_pod_driver(pod, found, driver_exists)
             var_files == check_for_varlist_files(d.pod.varlist, fs)
         IN IF d.raised THEN [pod |-> d.pod, exc |-> "AssertionError"]
            ELSE [pod |-> [d.pod EXCEPT !.varlist = varlist_after(@, fs),
                                        !.found_files = var_files.found_files,
                                        !.missing_files = var_files.missing_files,
                                        !.setup_done = TRUE],
                  exc |-> "none"]

\* mutant: the command names the first data file found instead of the driver
run_command_first_found(pod) ==
    pod.program \o <<" ">> \o (IF pod.found_files # <<>> THEN pod.found_files[1]
                                  ELSE pod.driver)

\* Diagnostic.run_command (line 300): program + ' ' + driver
run_command(pod) == pod.program \o <<" ">> \o pod.driver

\* flag.join([''] + lst)
RECURSIVE join_flags(_, _)
join_flags(flag, lst) ==
    IF lst = <<>> THEN <<>> ELSE <<flag, Head(lst)>> \o join_flags(flag, Tail(lst))

\* Diagnostic.validate_command (lines 314-325)
validate_command(pod) ==
    CODE_ROOT \o <<"/", "src", "/", "validate_environment.sh">> \o <<" -v">>
        \o join_flags(" -p ", pod.required_programs)
        \o join_flags(" -z ", [k \in 1..Len(pod.pod_env_vars) |-> pod.pod_env_vars[k].key])
        \o join_flags(" -a ", pod.required_python_modules)
        \o join_flags(" -b ", pod.required_ncl_scripts)
        \o join_flags(" -c ", pod.required_r_packages)


\* ------------------------------------------------------------------------
\* EnvironmentManager and its subclasses (environment_manager.py)

\* str.lower on the program names the settings use
lower(str) ==
    CASE str = "NCL" -> "ncl"
      [] str = "R" -> "r"
      [] str = "Rscript" -> "rscript"
      [] OTHER -> str

\* mutant: 'ncl' is looked for before 'r' / 'rscript'
set_pod_env_ncl_first(mgr, pod) ==
    IF mgr = "None" THEN pod
    ELSE LET keys == {lower(pod.required_programs[k]) :
                         k \in 1..Len(pod.required_programs)}
         IN IF "ncl" \in keys
            THEN [pod EXCEPT !.env = "_MDTF-diagnostics-NCL"]
            ELSE IF ("r" \in keys) \/ ("rscript" \in keys)
            THEN [pod EXCEPT !.env = "_MDTF-diagnostics-R"]
            ELSE [pod EXCEPT !.env = "_MDTF-diagnostics-python"]

\* set_pod_env: NoneEnvironmentManager (line 125-126) leaves pod.env alone,
\* CondaEnvironmentManager (lines 201-208) picks one of three names
set_pod_env(mgr, pod) ==
    IF mgr = "None" THEN pod
    ELSE LET keys == {lower(pod.required_programs[k]) :
                         k \in 1..Len(pod.required_programs)}
         IN IF ("r" \in keys) \/ ("rscript" \in keys)
            THEN [pod EXCEPT !.env = "_MDTF-diagnostics-R"]
            ELSE IF "ncl" \in keys
            THEN [pod EXCEPT !.env = "_MDTF-diagnostics-NCL"]
            ELSE [pod EXCEPT !.env = "_MDTF-diagnostics-python"]

\* create_environment (lines 119-120, 155-164) with _call_conda_create (lines
\* 166-188).  st.exists: 'conda env list' shows the prefix; st.spec: the file
\* conda_env_<short_name>.yml exists; st.popen_ok: Popen raises no OSError.
\* When the spec file is absent conda_prefix is never assigned and line 183
\* raises UnboundLocalError, which nothing catches.  started: the creation
\* subprocess was started (line 186; nothing waits for it or reads its exit
\* status); failed: the creation is known to have failed when the call ends
\* (no spec file, or OSError from Popen, lines 187-188).
create_environment(mgr, env_name, st) ==
    IF mgr = "None" THEN [raised |-> FALSE, started |-> FALSE, failed |-> FALSE]
    ELSE IF st.exists THEN [raised |-> FALSE, started |-> FALSE, failed |-> FALSE]
    ELSE IF ~st.spec THEN [raised |-> TRUE, started |-> FALSE, failed |-> TRUE]
    ELSE [raised |-> FALSE, started |-> st.popen_ok, failed |-> ~st.popen_ok]

\* "for env in self.envs: self.create_environment(env)" (lines 54-55) over the
\* iteration order the set gives: the names create_environment was called
\* with (each once: order has no repetition), the creations started and whether
\* an exception ended the loop
RECURSIVE create_environments(_, _, _)
create_environments(mgr, order, st) ==
    IF order = <<>> THEN [calls |-> {}, started |-> {}, failed |-> {}, raised |-> FALSE]
    ELSE LET c == create_environment(mgr, Head(order), st[Head(order)])
             rest == create_environments(mgr, Tail(order), st)
         IN IF c.raised
            THEN [calls |-> {Head(order)}, started |-> {}, failed |-> {Head(order)},
                  raised |-> TRUE]
            ELSE [calls |-> {Head(order)} \cup rest.calls,
                  started |-> (IF c.started THEN {Head(order)} ELSE {}) \cup rest.started,
                  failed |-> (IF c.failed THEN {Head(order)} ELSE {}) \cup rest.failed,
                  raised |-> rest.raised]

\* activate_env_command (lines 128-129, 210-217)
activate_env_command(mgr, pod) ==
    IF mgr = "None" THEN <<>>
    ELSE <<"source ">> \o CODE_ROOT \o <<"/src/conda_init.sh", " && ", "conda activate ">>
            \o conda_env_root \o <<"/", pod.env>>

\* deactivate_env_command (lines 131-132, 219-220)
deactivate_env_command(mgr, pod) == <<>>

\* sep.join(lst)
RECURSIVE join(_, _)
join(sep, lst) ==
    IF lst = <<>> THEN <<>>
    ELSE IF Len(lst) = 1 THEN lst[1]
    ELSE lst[1] \o <<sep>> \o join(sep, Tail(lst))

\* mutant: every fragment is joined, empty or not
compose_nofilter(commands) == join(" && ", commands)

\* mutant: the fragments are put one after the other with ';'
compose_semicolon(commands) == join(" ; ", SelectSeq(commands, LAMBDA frag : frag # <<>>))

\* line 80: ' && '.join([s for s in commands if s])
compose(commands) == join(" && ", SelectSeq(commands, LAMBDA frag : frag # <<>>))

\* line 74: 'echo "TEST MODE: would call {}"'.format(run_command)
test_mode_command(cmd) == <<"echo \"TEST MODE: would call ">> \o cmd \o <<"\"">>

\* mutant: in test mode only the echo is run
commands_list_echoonly(mgr, tm, pod) ==
    IF tm THEN <<<<>>, <<>>, test_mode_command(run_command(pod)), <<>>>>
    ELSE <<activate_env_command(mgr, pod), validate_command(pod),
           run_command(pod), deactivate_env_command(mgr, pod)>>

\* lines 72-78: the four fragments of a pod's command
commands_list(mgr, tm, pod) ==
    <<activate_env_command(mgr, pod),
      validate_command(pod),
      IF tm THEN test_mode_command(run_command(pod)) ELSE run_command(pod),
      deactivate_env_command(mgr, pod)>>

\* mutant: a pod is skipped when no file was found
skip_pod_nothing_found(pod) == pod.found_files = <<>>

\* mutant: no pod is skipped
skip_pod_never(pod) == FALSE

\* line 67: skip this pod if missing data
skip_pod(pod) == pod.missing_files # <<>>

\* the log file of a pod (line 70)
logfile_path(pod) == POD_WK_DIR(pod) \o <<"/", pod.name, ".log">>

\* what the file system and the OS answer during one iteration of the first
\* loop of run(): see Diagnostic_setUp; log_ok: open() of the log succeeds;
\* popen_ok: subprocess.Popen raises no OSError.  An answer that is never
\* asked for is given one value only: with the directories missing setUp
\* exits before anything else is looked at, and after a failed open() Popen
\* is not called.
Outcomes(pod) ==
    {o \in [dirs_ok : BOOLEAN,
            found : IF pod.driver = <<>>
                    THEN {<<>>} \cup {c \in driver_candidates(pod) : c[Len(c) - 2] = "driver"}
                    ELSE {<<>>},
            driver_exists : BOOLEAN, log_ok : BOOLEAN, popen_ok : BOOLEAN] :
        /\ ~o.dirs_ok => (o.found = <<>> /\ o.driver_exists /\ o.log_ok /\ o.popen_ok)
        /\ ~o.log_ok => o.popen_ok}

\* mutant: the OSError of Popen is not caught (no try/except at lines 85-95)
run_pod_oserror_raises(mgr, tm, pod, fs, o) ==
    LET s == Diagnostic_setUp(pod, fs, o.dirs_ok, o.found, o.driver_exists)
        opened == [s.pod EXCEPT !.logfile_obj = "open"]
        open_call == [pod |-> pod.name, path |-> logfile_path(pod), ok |-> o.log_ok]
        popen_call == [pod |-> pod.name,
                       commands |-> compose(commands_list(mgr, tm, opened)),
                       cwd |-> POD_WK_DIR(pod),
                       stdout |-> logfile_path(pod),
                       ok |-> o.popen_ok]
    IN IF s.exc # "none"
       THEN [pod |-> s.pod, exc |-> s.exc, opens |-> <<>>, popens |-> <<>>]
       ELSE IF skip_pod(s.pod)
       THEN [pod |-> [s.pod EXCEPT !.skipped = TRUE], exc |-> "none",
             opens |-> <<>>, popens |-> <<>>]
       ELSE IF ~o.log_ok
       THEN [pod |-> s.pod, exc |-> "IOError", opens |-> <<open_call>>, popens |-> <<>>]
       ELSE [pod |-> IF o.popen_ok THEN [opened EXCEPT !.process_obj = "running"]
                     ELSE opened,
             exc |-> IF o.popen_ok THEN "none" ELSE "OSError",
             opens |-> <<open_call>>, popens |-> <<popen_call>>]

\* one iteration of the first loop of run() (lines 60-95): the pod afterwards,
\* the exception that left run() ("none" if the iteration ended), and the
\* open() and Popen() calls the iteration made
run_pod(mgr, tm, pod, fs, o) ==
    LET s == Diagnostic_setUp(pod, fs, o.dirs_ok, o.found, o.driver_exists)
        opened == [s.pod EXCEPT !.logfile_obj = "open"]
        open_call == [pod |-> pod.name, path |-> logfile_path(pod), ok |-> o.log_ok]
        popen_call == [pod |-> pod.name,
                       commands |-> compose(commands_list(mgr, tm, opened)),
                       cwd |-> POD_WK_DIR(pod),
                       stdout |-> logfile_path(pod),
                       ok |-> o.popen_ok]
    IN IF s.exc # "none"
       THEN [pod |-> s.pod, exc |-> s.exc, opens |-> <<>>, popens |-> <<>>]
       ELSE IF skip_pod(s.pod)
       THEN [pod |-> [s.pod EXCEPT !.skipped = TRUE], exc |-> "none",
             opens |-> <<>>, popens |-> <<>>]
       ELSE IF ~o.log_ok
       THEN [pod |-> s.pod, exc |-> "IOError", opens |-> <<open_call>>, popens |-> <<>>]
       ELSE [pod |-> IF o.popen_ok THEN [opened EXCEPT !.process_obj = "running"]
                     ELSE opened,
             exc |-> "none", opens |-> <<open_call>>, popens |-> <<popen_call>>]

\* mutant: the second loop closes the log but does not wait for the process
wait_pod_closeonly(pod) == [pod EXCEPT !.logfile_obj = None]

\* ['bash', '-c', commands] (lines 79-92): how bash runs the command line.
\* split_commands: the simple commands of the line, each with the operator
\* that stands before it ("" for the first).
RECURSIVE split_commands(_, _, _)
split_commands(cmd, op, words) ==
    IF cmd = <<>> THEN <<[op |-> op, words |-> words]>>
    ELSE IF Head(cmd) \in {" && ", " ; "}
         THEN <<[op |-> op, words |-> words]>> \o split_commands(Tail(cmd), Head(cmd), <<>>)
    ELSE split_commands(Tail(cmd), op, words \o <<Head(cmd)>>)

\* the simple commands bash executes, in order: a command after '&&' runs
\* only when the exit status so far is 0, a command after ';' always runs;
\* failing is the set of simple commands that exit non-zero
RECURSIVE bash_list(_, _, _)
bash_list(cmds, status_ok, failing) ==
    IF cmds = <<>> THEN <<>>
    ELSE IF Head(cmds).op = " && " /\ ~status_ok
         THEN bash_list(Tail(cmds), status_ok, failing)
    ELSE <<Head(cmds).words>>
            \o bash_list(Tail(cmds), Head(cmds).words \notin failing, failing)

bash_c(cmd, failing) == bash_list(split_commands(cmd, "", <<>>), TRUE, failing)

\* one iteration of the second loop of run() (lines 99-105)
wait_pod(pod) == [pod EXCEPT !.process_obj = None, !.logfile_obj = None]

\* mutant: a pod that was skipped is not finalized
Diagnostic_tearDown_unless_skipped(pod) ==
    IF pod.skipped THEN pod ELSE [pod EXCEPT !.teardowns = @ + 1]

\* Diagnostic.tearDown (shared_diagnostic.py:329-348): the report page, the
\* figure conversion and the cleanup are the work of external tools on the
\* pod's directories; none of it reads or writes the fields of the model, and
\* the call is taken to return.  teardowns counts the calls.
Diagnostic_tearDown(pod) == [pod EXCEPT !.teardowns = @ + 1]

\* mutant: destroy_environment is called for the environment of every pod
destroy_environments_per_pod(calls, env_set, pod_list) ==
    [e \in EnvNames |-> calls[e] + Cardinality({k \in 1..Len(pod_list) : pod_list[k].env = e})]

\* "for env in self.envs: self.destroy_environment(env)" (lines 113-114):
\* the number of calls per name afterwards
destroy_environments(calls, env_set, pod_list) ==
    [e \in EnvNames |-> calls[e] + IF e \in env_set THEN 1 ELSE 0]

\* every order in which "for env in self.envs" can visit a set
Orders(S) == {o \in [1..Cardinality(S) -> S] : \A a, b \in 1..Cardinality(S) : a # b => o[a] # o[b]}

\* ------------------------------------------------------------------------
\* Spec: one batch run

Init ==
    /\ config \in [1..NPods -> PodSettings]
    /\ os_environ = [n \in {"CASENAME", "DATADIR"} |->
                        IF n = "CASENAME" THEN <<CASENAME>> ELSE <<DATADIR>>]
    /\ manager \in {"None", "Conda"}
    /\ test_mode \in BOOLEAN
    /\ pods = <<>>
    /\ files \in SUBSET AllPaths
    /\ envs = {}
    /\ pc = "init"
    /\ i = 1
    /\ create_calls = [e \in EnvNames |-> 0]
    /\ conda_creating = {}
    /\ create_failed = {}
    /\ destroy_calls = [e \in EnvNames |-> 0]
    /\ popen_calls = <<>>
    /\ popen_env = <<>>
    /\ open_calls = <<>>
    /\ resolve_idle
    /\ util_idle
    /\ bidict_idle

\* the pods constructed before the first one whose construction raises
RECURSIVE construct_pods(_, _)
construct_pods(settings, k) ==
    IF k > Len(settings) \/ Diagnostic_raises(settings[k]) THEN <<>>
    ELSE <<Diagnostic(PodNames[k], settings[k])>> \o construct_pods(settings, k + 1)

\* The pods of the batch are constructed, in order: Diagnostic.__init__
\* (shared_diagnostic.py:31-50) for each.  An exception of a constructor ends
\* the batch before setUp (pc = "init_raised").
Configure ==
    /\ pc = "init"
    /\ pods' = construct_pods(config, 1)
    /\ pc' = IF \E k \in 1..Len(config) : Diagnostic_raises(config[k])
             THEN "init_raised" ELSE "setUp"
    /\ UNCHANGED <<config, os_environ, manager, test_mode, envs, i, create_calls,
                   conda_creating, create_failed, destroy_calls, popen_calls, popen_env,
                   open_calls, files>>
    /\ UNCHANGED <<resolve_vars, util_vars, bidict>>

\* EnvironmentManager.setUp (lines 50-55)
setUp ==
    /\ pc = "setUp"
    /\ LET bound == [k \in 1..Len(pods) |-> set_pod_env(manager, pods[k])]
           all_envs == envs \cup {bound[k].env : k \in 1..Len(bound)}
       IN /\ pods' = bound
          /\ envs' = all_envs
          /\ \E order \in Orders(all_envs),
                st \in [all_envs -> [exists : BOOLEAN, spec : BOOLEAN, popen_ok : BOOLEAN]] :
                LET c == create_environments(manager, order, st)
                IN /\ create_calls' = [e \in EnvNames |->
                          create_calls[e] + IF e \in c.calls THEN 1 ELSE 0]
                   /\ conda_creating' = conda_creating \cup c.started
                   /\ create_failed' = create_failed \cup c.failed
                   /\ pc' = IF c.raised THEN "setUp_raised" ELSE "run"
    /\ UNCHANGED <<config, os_environ, manager, test_mode, i, destroy_calls, popen_calls,
                   popen_env, open_calls, files>>
    /\ UNCHANGED <<resolve_vars, util_vars, bidict>>

\* EnvironmentManager.run, first loop (lines 60-95), one pod per step
RunPod ==
    /\ pc = "run"
    /\ \E o \in Outcomes(pods[i]) :
          LET r == run_pod(manager, test_mode, pods[i], files, o)
              \* pod.setUp() begins with _set_pod_env_vars (line 142 of
              \* shared_diagnostic.py), whatever happens after it
              environ == set_pod_env_vars(pods[i], os_environ)
          IN /\ pods' = [pods EXCEPT ![i] = r.pod]
             /\ os_environ' = environ
             /\ open_calls' = open_calls \o r.opens
             /\ popen_calls' = popen_calls \o r.popens
             \* env = os.environ (line 90)
             /\ popen_env' = IF r.popens # <<>> THEN environ ELSE popen_env
             /\ pc' = IF r.exc # "none" THEN "run_raised"
                      ELSE IF i = Len(pods) THEN "join" ELSE "run"
             /\ i' = IF r.exc # "none" THEN i
                     ELSE IF i = Len(pods) THEN 1 ELSE i + 1
    /\ UNCHANGED <<config, manager, test_mode, envs, create_calls, conda_creating,
                   create_failed, destroy_calls, files>>
    /\ UNCHANGED <<resolve_vars, util_vars, bidict>>

\* EnvironmentManager.run, second loop (lines 99-105), one pod per step
WaitPod ==
    /\ pc = "join"
    /\ pods' = [pods EXCEPT ![i] = wait_pod(pods[i])]
    /\ pc' = IF i = Len(pods) THEN "ran" ELSE "join"
    /\ i' = IF i = Len(pods) THEN 1 ELSE i + 1
    /\ UNCHANGED <<config, os_environ, manager, test_mode, envs, create_calls,
                   conda_creating, create_failed, destroy_calls, popen_calls, popen_env,
                   open_calls, files>>
    /\ UNCHANGED <<resolve_vars, util_vars, bidict>>

\* EnvironmentManager.tearDown, first loop (lines 111-112), one pod per step;
\* run() has returned (pc = "ran") or the loop is under way (pc = "tearDown")
TearDownPod ==
    /\ pc \in {"ran", "tearDown"}
    /\ pods' = [pods EXCEPT ![i] = Diagnostic_tearDown(pods[i])]
    \* pod.tearDown() begins with _set_pod_env_vars (line 344 of shared_diagnostic.py)
    /\ os_environ' = set_pod_env_vars(pods[i], os_environ)
    /\ pc' = IF i = Len(pods) THEN "destroy" ELSE "tearDown"
    /\ i' = IF i = Len(pods) THEN i ELSE i + 1
    /\ UNCHANGED <<config, manager, test_mode, envs, create_calls, conda_creating,
                   create_failed, destroy_calls, popen_calls, popen_env, open_calls, files>>
    /\ UNCHANGED <<resolve_vars, util_vars, bidict>>

\* EnvironmentManager.tearDown, second loop (lines 113-114): destroy_environment
\* is 'pass' in both subclasses (lines 122-123, 198-199), so the loop is one step
DestroyEnvs ==
    /\ pc = "destroy"
    /\ destroy_calls' = destroy_environments(destroy_calls, envs, pods)
    /\ pc' = "done"
    /\ UNCHANGED <<config, os_environ, manager, test_mode, pods, envs, i, create_calls,
                   conda_creating, create_failed, popen_calls, popen_env, open_calls, files>>
    /\ UNCHANGED <<resolve_vars, util_vars, bidict>>

\* The caller of the constructors, setUp(), run() and tearDown() is not among
\* the sources: a batch constructs its pods, calls setUp(), then run(), then
\* tearDown() (the data flow of the design), and an exception that leaves one
\* of them ends the batch (pc = "init_raised", "setUp_raised", "run_raised").
Next == Configure \/ setUp \/ RunPod \/ WaitPod \/ TearDownPod \/ DestroyEnvs

Spec == Init /\ [][Next]_vars


\* ------------------------------------------------------------------------
\* Claims about the resolver (checked under SpecResolve)

\* the loop is about to handle item k = idx + 1 and then does
HandlesNext == rpc = "loop" /\ idx < Len(varlist_arg) /\ idx' = idx + 1

primary_absent(item) == ~isfile(primary_path(item), files)

all_alternates_absent(item) ==
    \A k \in 1..Len(item.alternates) : ~isfile(alternate_path(item, k), files)

\* C5 (as stated): missing_files is non-empty only if some required variable
\* is absent at its primary path and at the path of every one of its
\* alternates; one present alternate is enough to keep missing_files empty.
C5_MissingOnlyIfNothingResolves ==
    rpc = "returned" =>
        (ret.missing_files # <<>> =>
            \E k \in 1..Len(varlist_arg) :
                /\ varlist_arg[k].required
                /\ primary_absent(varlist_arg[k])
                /\ all_alternates_absent(varlist_arg[k]))

\* C6 (as stated): for a required variable absent at its primary path and at
\* every alternate, the primary path is what missing_files records.
C6_PrimaryPathRecorded ==
    rpc = "returned" =>
        \A k \in 1..Len(varlist_arg) :
            (/\ varlist_arg[k].required
             /\ primary_absent(varlist_arg[k])
             /\ all_alternates_absent(varlist_arg[k]))
            => primary_path(varlist_arg[k]) \in Range(ret.missing_files)

\* required, absent at the primary path, exactly one alternate, which is present
sole_alternate_present(item) ==
    /\ item.required
    /\ primary_absent(item)
    /\ Len(item.alternates) = 1
    /\ isfile(alternate_path(item, 1), files)

\* C7: for a required variable absent at its primary path whose only alternate
\* is present, the loop appends the alternate's path to found_list and nothing
\* to missing_list; a list holding just that variable returns exactly
\* found_files = [alternate's path], missing_files = [].
C7_SoleAlternateFound ==
    /\ [][(HandlesNext /\ sole_alternate_present(varlist_arg[idx + 1])) =>
            (/\ found_list' = Append(found_list, alternate_path(varlist_arg[idx + 1], 1))
             /\ missing_list' = missing_list)]_vars
    /\ [](rpc = "returned" /\ Len(varlist_arg) = 1
            /\ sole_alternate_present(varlist_arg[1]) =>
          /\ ret.found_files = <<alternate_path(varlist_arg[1], 1)>>
          /\ ret.missing_files = <<>>)

C7_Witness ==
    /\ rpc = "returned"
    /\ Len(varlist_arg) = 2
    /\ sole_alternate_present(varlist_arg[2])
    /\ varlist_arg[2].alternates[1] # varlist_arg[2].name_in_model
    /\ alternate_path(varlist_arg[2], 1) \in Range(ret.found_files)
    /\ ret.missing_files = <<>>

\* required, no alternates, no file at the primary path
required_no_alternates_absent(item) ==
    /\ item.required
    /\ Len(item.alternates) = 0
    /\ primary_absent(item)

\* C8 (as stated): such a variable adds exactly its primary path to
\* missing_files and nothing to found_files, and when it is the only such
\* variable of the list missing_files has exactly that one entry.
C8_SoleMissingEntry ==
    rpc = "returned" =>
        \A k \in 1..Len(varlist_arg) :
            (/\ required_no_alternates_absent(varlist_arg[k])
             /\ \A j \in 1..Len(varlist_arg) :
                    j # k => ~required_no_alternates_absent(varlist_arg[j]))
            => ret.missing_files = <<primary_path(varlist_arg[k])>>

\* C8 (amended): such a variable adds exactly its primary path to
\* missing_list and nothing to found_list, and when it is the only required
\* variable of the list whose primary file is absent, missing_files has
\* exactly that one entry.
C8_MissingNoAlternates ==
    /\ [][(HandlesNext /\ required_no_alternates_absent(varlist_arg[idx + 1])) =>
            (/\ missing_list' = Append(missing_list, primary_path(varlist_arg[idx + 1]))
             /\ found_list' = found_list)]_vars
    /\ [](rpc = "returned" =>
            \A k \in 1..Len(varlist_arg) :
                (/\ required_no_alternates_absent(varlist_arg[k])
                 /\ \A j \in 1..Len(varlist_arg) :
                        j # k => ~(varlist_arg[j].required /\ primary_absent(varlist_arg[j])))
                => ret.missing_files = <<primary_path(varlist_arg[k])>>)

C8_Witness ==
    /\ rpc = "returned"
    /\ Len(varlist_arg) = 2
    /\ required_no_alternates_absent(varlist_arg[1])
    /\ ~varlist_arg[2].required
    /\ primary_absent(varlist_arg[2])
    /\ ret.missing_files = <<primary_path(varlist_arg[1])>>
    /\ ret.found_files = <<>>

\* C9: an optional variable whose primary file is absent adds nothing to
\* found_list and nothing to missing_list, with or without alternates (a
\* present alternate of it is not recorded either).
C9_OptionalAbsentSkipped ==
    /\ [][(HandlesNext /\ ~varlist_arg[idx + 1].required
            /\ primary_absent(varlist_arg[idx + 1])) =>
            (found_list' = found_list /\ missing_list' = missing_list)]_vars
    /\ [](rpc = "returned" /\ Len(varlist_arg) = 1 /\ ~varlist_arg[1].required
            /\ primary_absent(varlist_arg[1]) =>
          ret.found_files = <<>> /\ ret.missing_files = <<>>)

C9_Witness ==
    /\ rpc = "returned"
    /\ Len(varlist_arg) = 1
    /\ ~varlist_arg[1].required
    /\ primary_absent(varlist_arg[1])
    /\ Len(varlist_arg[1].alternates) = 2
    /\ isfile(alternate_path(varlist_arg[1], 1), files)
    /\ ~isfile(alternate_path(varlist_arg[1], 2), files)
    /\ ret.found_files = <<>>
    /\ ret.missing_files = <<>>

\* C11: resolving the same requirement list a second time against the same
\* filesystem returns the same found_files and missing_files as the first
\* time: nothing of the first call's lists is carried into the second.
C11_SecondCallSameResult ==
    [][rpc = "returned" /\ rpc' = "returned_again"
         => /\ ret'.found_files = ret.found_files
            /\ ret'.missing_files = ret.missing_files]_vars

\* a second call has returned, with something found and something missing
C11_Witness ==
    /\ rpc = "returned_again"
    /\ ret.found_files # <<>>
    /\ ret.missing_files # <<>>

\* the loop body went into the alternates branch for entry k of the argument
alternates_checked(k) ==
    /\ varlist_arg[k].required
    /\ primary_absent(varlist_arg[k])
    /\ Len(varlist_arg[k].alternates) > 0

\* C12: no step of the call, the recursion into alternates included, changes
\* the requirement list: every entry keeps its name, frequency, required flag
\* and alternates.
C12_VarlistUnchanged ==
    [][/\ Len(varlist_arg') = Len(varlist_arg)
       /\ \A k \in 1..Len(varlist_arg) :
             /\ varlist_arg'[k].name_in_model = varlist_arg[k].name_in_model
             /\ varlist_arg'[k].freq = varlist_arg[k].freq
             /\ varlist_arg'[k].required = varlist_arg[k].required
             /\ varlist_arg'[k].has_alternates = varlist_arg[k].has_alternates
             /\ varlist_arg'[k].alternates = varlist_arg[k].alternates]_vars

\* the call returned after recursing into the two alternates of an entry
C12_Witness ==
    /\ rpc = "returned"
    /\ \E k \in 1..Len(varlist_arg) :
          /\ alternates_checked(k)
          /\ Len(varlist_arg[k].alternates) = 2
          /\ varlist_arg[k].alternates[2] # varlist_arg[k].name_in_model

\* ------------------------------------------------------------------------
\* Claims about the batch run (checked under Spec)

\* the first loop of run() is through with pod k (its iteration ended, by
\* reaching the end of the body, by 'continue' or by an exception)
iteration_done(k) ==
    \/ pc = "run" /\ i > k
    \/ pc \in {"join", "ran", "tearDown", "destroy", "done"}
    \/ pc = "run_raised" /\ i >= k

\* run() called subprocess.Popen for pod k
popen_for(k) == \E c \in 1..Len(popen_calls) : popen_calls[c].pod = pods[k].name

\* run() called open() for the log of pod k / and it succeeded
open_for(k) == \E c \in 1..Len(open_calls) : open_calls[c].pod = pods[k].name

opened_for(k) ==
    \E c \in 1..Len(open_calls) : open_calls[c].pod = pods[k].name /\ open_calls[c].ok

\* C1 (as stated): once EnvironmentManager.setUp has run, create_environment
\* has been called exactly once for the environment name of every pod.
C1_CreatedOncePerName ==
    pc # "setUp" => \A k \in 1..Len(pods) : create_calls[pods[k].env] = 1

\* the fragments joined with ' && ' put before every non-empty fragment that
\* has a non-empty fragment before it
chain_piece(frags, k) ==
    IF frags[k] = <<>> THEN <<>>
    ELSE (IF \E j \in 1..(k - 1) : frags[j] # <<>> THEN <<" && ">> ELSE <<>>) \o frags[k]

chain(frags) ==
    chain_piece(frags, 1) \o chain_piece(frags, 2) \o chain_piece(frags, 3)
        \o chain_piece(frags, 4)

\* [activate, validate, run, deactivate] of a pod, the run fragment as given
fragments(pod, run_fragment) ==
    <<activate_env_command(manager, pod), validate_command(pod), run_fragment,
      deactivate_env_command(manager, pod)>>

well_chained(cmd) ==
    /\ cmd # <<>>
    /\ cmd[1] # " && "
    /\ cmd[Len(cmd)] # " && "
    /\ \A j \in 1..(Len(cmd) - 1) : ~(cmd[j] = " && " /\ cmd[j + 1] = " && ")

\* C2: the command string of every Popen call is the chain of the pod's
\* non-empty fragments [activate, validate, run, deactivate] in that order,
\* separated by ' && ', with no '&&' at either end and no two in a row; with
\* the conda manager (deactivate empty) it is 'A && V && R'.
C2_CommandChain ==
    \A c \in 1..Len(popen_calls) :
        \A k \in 1..Len(pods) :
            popen_calls[c].pod = pods[k].name =>
                LET R == IF test_mode THEN test_mode_command(run_command(pods[k]))
                         ELSE run_command(pods[k])
                    cmd == popen_calls[c].commands
                IN /\ cmd = chain(fragments(pods[k], R))
                   /\ well_chained(cmd)
                   /\ manager = "Conda" =>
                        cmd = activate_env_command(manager, pods[k]) \o <<" && ">>
                                \o validate_command(pods[k]) \o <<" && ">> \o R

C2_Witness ==
    /\ manager = "Conda"
    /\ ~test_mode
    /\ \E c \in 1..Len(popen_calls) :
          /\ popen_calls[c].pod = pods[1].name
          /\ popen_calls[c].commands =
                activate_env_command(manager, pods[1]) \o <<" && ">>
                    \o validate_command(pods[1]) \o <<" && ">> \o run_command(pods[1])

\* C3: whatever the file system and the OS answer, the iteration of run() for
\* a pod with test mode on and with test mode off leave the pod in the same
\* state (found/missing files, log file, process), end the same way and make
\* the same open() and Popen() calls (same pod, cwd, log, result), except that
\* in the command the run fragment is replaced by an echo of it: activate,
\* validate and deactivate are unchanged.
C3_TestModeOnlyRunFragment ==
    pc = "run" =>
        \A o \in Outcomes(pods[i]) :
            LET on == run_pod(manager, TRUE, pods[i], files, o)
                off == run_pod(manager, FALSE, pods[i], files, o)
            IN /\ on.pod = off.pod
               /\ on.exc = off.exc
               /\ on.opens = off.opens
               /\ Len(on.popens) = Len(off.popens)
               /\ wait_pod(on.pod) = wait_pod(off.pod)
               /\ on.popens # <<>> =>
                    /\ on.popens[1].pod = off.popens[1].pod
                    /\ on.popens[1].cwd = off.popens[1].cwd
                    /\ on.popens[1].stdout = off.popens[1].stdout
                    /\ on.popens[1].ok = off.popens[1].ok
                    /\ off.popens[1].commands =
                         chain(fragments(on.pod, run_command(on.pod)))
                    /\ on.popens[1].commands =
                         chain(fragments(on.pod, test_mode_command(run_command(on.pod))))

C3_Witness ==
    /\ test_mode
    /\ pc = "ran"
    /\ \E c \in 1..Len(popen_calls) :
          /\ popen_calls[c].pod = pods[2].name
          /\ popen_calls[c].ok
          /\ popen_calls[c].commands =
                chain(fragments(pods[2], test_mode_command(run_command(pods[2]))))
    /\ pods[1].skipped

\* C4 (as stated): a pod whose Diagnostic.setUp returned is spawned if and
\* only if its missing_files is empty.
C4_SpawnedIffNothingMissing ==
    \A k \in 1..Len(pods) :
        (iteration_done(k) /\ pods[k].setup_done) =>
            (popen_for(k) <=> pods[k].missing_files = <<>>)

\* C4 (amended): a pod whose Diagnostic.setUp returned is spawned if and only
\* if its missing_files is empty and its log file could be opened: with
\* non-empty missing_files it is skipped (no open, no Popen); with empty
\* missing_files open() is called for its log, and Popen is called exactly
\* when that open() succeeded.
C4_SpawnedIffNothingMissingAndLogOpen ==
    \A k \in 1..Len(pods) :
        (iteration_done(k) /\ pods[k].setup_done) =>
            /\ popen_for(k) <=> (pods[k].missing_files = <<>> /\ opened_for(k))
            /\ open_for(k) <=> pods[k].missing_files = <<>>
            /\ pods[k].skipped <=> pods[k].missing_files # <<>>

C4_Witness ==
    /\ pc = "ran"
    /\ pods[1].varlist # <<>>
    /\ \A v \in 1..Len(pods[1].varlist) :
          /\ ~pods[1].varlist[v].required
          /\ ~isfile(primary_path(pods[1].varlist[v]), files)
    /\ pods[1].missing_files = <<>>
    /\ popen_for(1)
    /\ pods[2].missing_files # <<>>
    /\ ~popen_for(2)

\* C10: a pod with an empty varlist has empty found_files and missing_files
\* once Diagnostic.setUp returned, whatever files exist, and is runnable: run()
\* does not skip it but goes on to open its log.
C10_EmptyVarlistRunnable ==
    \A k \in 1..Len(pods) :
        (pods[k].varlist = <<>> /\ pods[k].setup_done) =>
            /\ pods[k].found_files = <<>>
            /\ pods[k].missing_files = <<>>
            /\ ~pods[k].skipped
            /\ iteration_done(k) => open_for(k)

C10_Witness ==
    /\ pc = "ran"
    /\ files = AllPaths
    /\ pods[2].varlist = <<>>
    /\ pods[2].setup_done
    /\ pods[2].found_files = <<>>
    /\ pods[2].missing_files = <<>>
    /\ popen_for(2)

\* ------------------------------------------------------------------------
\* Claims about the whole batch: setUp, run, tearDown (checked under Spec)

\* Diagnostic.setUp returned for pod k with non-empty missing_files
ends_up_skipped(k) == pods[k].setup_done /\ pods[k].missing_files # <<>>

\* Popen was called for pod k and returned a process / raised OSError
spawned(k) ==
    \E c \in 1..Len(popen_calls) : popen_calls[c].pod = pods[k].name /\ popen_calls[c].ok

spawn_failed(k) ==
    \E c \in 1..Len(popen_calls) : popen_calls[c].pod = pods[k].name /\ ~popen_calls[c].ok

\* run() has returned
run_returned == pc \in {"ran", "tearDown", "destroy", "done"}

\* C13 (as stated): a pod that ends up skipped is never bound to an
\* environment, never has its log opened and is never spawned.
C13_SkippedNeverBoundNorSpawned ==
    \A k \in 1..Len(pods) :
        ends_up_skipped(k) =>
            /\ pods[k].env = ""
            /\ ~open_for(k)
            /\ ~popen_for(k)

\* C13 (amended): a pod that ends up skipped never has its log opened and is
\* never spawned (it holds no process and no log file at any point); it is
\* bound to an environment all the same: setUp has called set_pod_env for it,
\* and create_environment for its environment, as for every other pod.
C13_SkippedNeverSpawned ==
    \A k \in 1..Len(pods) :
        ends_up_skipped(k) =>
            /\ ~open_for(k)
            /\ ~popen_for(k)
            /\ pods[k].process_obj = None
            /\ pods[k].logfile_obj = None
            /\ pods[k].env \in envs
            /\ manager = "Conda" => (pods[k].env # "" /\ create_calls[pods[k].env] = 1)

\* the batch is over; pod 1 was skipped and is bound to a conda environment,
\* pod 2 was spawned
C13_Witness ==
    /\ pc = "done"
    /\ manager = "Conda"
    /\ ends_up_skipped(1)
    /\ pods[1].skipped
    /\ pods[1].env # ""
    /\ spawned(2)

C15_FailedCreationContained ==
    \A k \in 1..Len(pods) :
        /\ pods[k].env \in create_failed => ~popen_for(k)
        /\ (pc \in {"done", "setUp_raised"} /\ pods[k].env \notin create_failed) =>
              /\ pods[k].teardowns = 1
              /\ pods[k].setup_done
              /\ pods[k].missing_files = <<>> => popen_for(k)

\* C16 (as stated): when a pod is spawned, the creation of its environment is
\* not in progress and has not failed.
C16_CreationFinishedBeforeSpawn ==
    \A k \in 1..Len(pods) :
        popen_for(k) =>
            /\ pods[k].env \notin conda_creating
            /\ pods[k].env \notin create_failed

\* C17: no process is waited on while the first loop of run() still has a pod
\* to handle (a process that was spawned is held until every pod had its
\* turn), and once run() has returned no pod holds a process, so that
\* Diagnostic.tearDown is only ever called when no process is held.
C17_SpawnAllThenWaitAll ==
    /\ \A k \in 1..Len(pods) :
          (spawned(k) /\ pc \in {"run", "run_raised"}) => pods[k].process_obj = "running"
    /\ \A k \in 1..Len(pods) :
          (spawned(k) /\ pods[k].process_obj = None) =>
              \A j \in 1..Len(pods) : iteration_done(j)
    /\ run_returned => \A k \in 1..Len(pods) : pods[k].process_obj = None
    /\ (\E k \in 1..Len(pods) : pods[k].teardowns > 0) =>
          \A k \in 1..Len(pods) : pods[k].process_obj = None

\* tearDown() is under way after both pods were spawned
C17_Witness ==
    /\ pc = "tearDown"
    /\ spawned(1)
    /\ spawned(2)
    /\ pods[1].teardowns = 1
    /\ pods[1].process_obj = None
    /\ pods[2].process_obj = None

\* C18 (as stated): when run() is left, by return or by an exception, no pod
\* holds a process or an open log file.
C18_HandlesReleasedOnExit ==
    (run_returned \/ pc = "run_raised") =>
        \A k \in 1..Len(pods) :
            pods[k].process_obj = None /\ pods[k].logfile_obj = None

\* C19 (as stated): no error of one pod (driver, directory, log file) leaves
\* run(), and once run() is left every pod had Diagnostic.setUp called.
C19_PerJobErrorContained ==
    /\ pc # "run_raised"
    /\ (run_returned \/ pc = "run_raised") => \A k \in 1..Len(pods) : iteration_done(k)

\* C20: when Popen raised OSError for pod k, run() goes on with the pods after
\* k (the exception does not leave run()); pod k holds no process, its log
\* stays open until the second loop and is closed when run() has returned; and
\* tearDown() finalizes pod k.
C20_SpawnFailureContained ==
    \A k \in 1..Len(pods) :
        spawn_failed(k) =>
            /\ ~(pc = "run_raised" /\ i = k)
            /\ pods[k].process_obj = None
            /\ pc \in {"run", "run_raised"} => pods[k].logfile_obj = "open"
            /\ run_returned => pods[k].logfile_obj = None
            /\ pc \in {"destroy", "done"} => pods[k].teardowns = 1

\* the batch is over: pod 1 failed to spawn, pod 2 was spawned after it
C20_Witness ==
    /\ pc = "done"
    /\ spawn_failed(1)
    /\ spawned(2)
    /\ pods[1].logfile_obj = None
    /\ pods[1].teardowns = 1

\* ------------------------------------------------------------------------
\* More claims about the batch (checked under Spec)

\* the fields of a pod that hold its run state
run_state(pod) ==
    [found_files |-> pod.found_files, missing_files |-> pod.missing_files,
     process_obj |-> pod.process_obj, logfile_obj |-> pod.logfile_obj]

\* C21 (as stated): once the batch is over every pod carries a record of what
\* happened to it; so two pods that hold the same run state had the same
\* fate: both were spawned or both were not.
C21_FinalStatusRecorded ==
    pc = "done" =>
        \A j, k \in 1..Len(pods) :
            run_state(pods[j]) = run_state(pods[k]) => (spawned(j) <=> spawned(k))

\* the spellings of the program names that lower-case to 'r' / 'rscript', to 'ncl'
R_spellings == {"r", "R", "rscript", "Rscript", "RSCRIPT"}

ncl_spellings == {"ncl", "NCL", "Ncl"}

lists_program(pod, spellings) ==
    \E j \in 1..Len(pod.required_programs) : pod.required_programs[j] \in spellings

\* C22: when setUp of the conda manager has bound the pods (in the state it
\* leaves), a pod that lists R or Rscript (in any case) has the R
\* environment, also when it lists ncl; else a pod that lists ncl has the
\* NCL environment; else the pod has the python environment.
C22_EnvByPriority ==
    (manager = "Conda" /\ pc \in {"run", "setUp_raised"} /\ i = 1) =>
        \A k \in 1..Len(pods) :
            /\ pods[k].env \in {"_MDTF-diagnostics-R", "_MDTF-diagnostics-NCL",
                                "_MDTF-diagnostics-python"}
            /\ lists_program(pods[k], R_spellings) => pods[k].env = "_MDTF-diagnostics-R"
            /\ (~lists_program(pods[k], R_spellings) /\ lists_program(pods[k], ncl_spellings))
                  => pods[k].env = "_MDTF-diagnostics-NCL"
            /\ (~lists_program(pods[k], R_spellings) /\ ~lists_program(pods[k], ncl_spellings))
                  => pods[k].env = "_MDTF-diagnostics-python"

\* pod 1 lists Rscript and ncl and has the R environment, pod 2 lists NCL
C22_Witness ==
    /\ manager = "Conda"
    /\ pc = "run"
    /\ i = 1
    /\ pods[1].required_programs = <<"Rscript", "ncl">>
    /\ pods[1].env = "_MDTF-diagnostics-R"
    /\ pods[2].required_programs = <<"NCL">>
    /\ pods[2].env = "_MDTF-diagnostics-NCL"

\* the simple commands of a fragment
simple_commands(fragment) ==
    {c.words : c \in Range(split_commands(fragment, "", <<>>))} \ {<<>>}

\* the last step was an iteration of the first loop of run() that made the
\* latest Popen call, for pod k
just_spawned(k) ==
    /\ popen_calls # <<>>
    /\ popen_calls[Len(popen_calls)].pod = pods[k].name
    /\ \/ pc = "run" /\ i = k + 1
       \/ pc = "join" /\ i = 1 /\ k = Len(pods)

\* C23: in the command line of a Popen call (looked at in the state the call
\* leaves), run by bash, the run fragment is executed when no simple command
\* exits non-zero, and is not executed when a simple command of the
\* activate or validate fragment exits non-zero (be it the only one that
\* does, or one among all).
C23_ChainAbortsOnFailure ==
    \A k \in 1..Len(pods) :
        just_spawned(k) =>
            LET R == IF test_mode THEN test_mode_command(run_command(pods[k]))
                     ELSE run_command(pods[k])
                before == simple_commands(activate_env_command(manager, pods[k]))
                            \cup simple_commands(validate_command(pods[k]))
                cmd == popen_calls[Len(popen_calls)].commands
            IN /\ R \in Range(bash_c(cmd, {}))
               /\ \A w \in before : R \notin Range(bash_c(cmd, {w}))
               /\ before # {} => R \notin Range(bash_c(cmd, before \cup {R}))

\* the second pod was just spawned under the conda manager: activate (two
\* simple commands), validate and run are in its command line
C23_Witness ==
    /\ manager = "Conda"
    /\ just_spawned(2)
    /\ popen_calls[Len(popen_calls)].ok
    /\ Len(split_commands(popen_calls[Len(popen_calls)].commands, "", <<>>)) = 4

bad_frequency(settings) ==
    \E v \in 1..Len(settings.varlist) :
        settings.varlist[v].freq \notin {"1hr", "3hr", "6hr", "day", "mon"}

\* C25: a pod whose settings have a bad frequency is never constructed: the
\* batch holds no pod for it, so Diagnostic.setUp (and with it
\* _check_for_varlist_files) is never called for it and nothing is spawned
\* for it; every entry of every pod of the batch has an accepted frequency.
C25_BadFrequencyRejected ==
    /\ \A k \in 1..Len(config) :
          bad_frequency(config[k]) =>
              /\ Len(pods) < k
              /\ pc \in {"init", "init_raised"}
              /\ \A c \in 1..Len(popen_calls) : popen_calls[c].pod # PodNames[k]
    /\ \A k \in 1..Len(pods) :
          \A v \in 1..Len(pods[k].varlist) :
              pods[k].varlist[v].freq \in {"1hr", "3hr", "6hr", "day", "mon"}

\* the constructor of pod 2 raised on a bad frequency
C25_Witness ==
    /\ pc = "init_raised"
    /\ bad_frequency(config[2])
    /\ ~bad_frequency(config[1])
    /\ Len(pods) = 1
    /\ popen_calls = <<>>

\* pod k has one entry in its varlist, required, with one alternate; the
\* file of the entry is absent and the file of the alternate is present
resolved_by_only_alternate(k) ==
    /\ Len(pods[k].varlist) = 1
    /\ pods[k].varlist[1].required
    /\ Len(pods[k].varlist[1].alternates) = 1
    /\ ~isfile(primary_path(pods[k].varlist[1]), files)
    /\ isfile(alternate_path(pods[k].varlist[1], 1), files)

\* C26: a pod resolved by its only alternate has empty missing_files once
\* Diagnostic.setUp returned, is not skipped, and is spawned when its log
\* could be opened; its driver is the declared driver (made absolute) and its
\* program the declared program, and the command line of its Popen call ends
\* with the run fragment built from them and nowhere names the alternate.
C26_AlternateKeepsDriver ==
    \A k \in 1..Len(pods) :
        (resolved_by_only_alternate(k) /\ pods[k].setup_done /\ config[k].driver # <<>>) =>
            LET declared == POD_CODE_DIR(pods[k]) \o <<"/">> \o config[k].driver
                program == IF config[k].program # <<>> THEN config[k].program
                           ELSE pods[k].program
                R == program \o <<" ">> \o declared
            IN /\ pods[k].missing_files = <<>>
               /\ pods[k].found_files = <<alternate_path(pods[k].varlist[1], 1)>>
               /\ ~pods[k].skipped
               /\ pods[k].driver = declared
               /\ config[k].program # <<>> => pods[k].program = config[k].program
               /\ iteration_done(k) => (popen_for(k) <=> opened_for(k))
               /\ \A c \in 1..Len(popen_calls) :
                     popen_calls[c].pod = pods[k].name =>
                         LET cmd == popen_calls[c].commands
                             run_part == IF test_mode THEN test_mode_command(R) ELSE R
                         IN /\ Len(cmd) >= Len(run_part)
                            /\ SubSeq(cmd, Len(cmd) - Len(run_part) + 1, Len(cmd)) = run_part
                            /\ pods[k].varlist[1].alternates[1] \notin Range(cmd)

\* the batch is over; pod 1 was resolved by its only alternate and was spawned
C26_Witness ==
    /\ pc = "done"
    /\ resolved_by_only_alternate(1)
    /\ spawned(1)
    /\ pods[1].driver = POD_CODE_DIR(pods[1]) \o <<"/", "drv", ".", "R">>

\* the names the process starts with in os.environ
base_environ == {"CASENAME", "DATADIR"}

\* C29 (as stated): the env of a Popen call (looked at while the call is
\* the latest) has POD_HOME, OBS_DATA and WK_DIR of the pod that is spawned,
\* and has no variable other than these, the ones the process started with
\* and the pod's own pod_env_vars.
C29_SpawnEnvIsolated ==
    \A k \in 1..Len(pods) :
        (popen_calls # <<>> /\ popen_calls[Len(popen_calls)].pod = pods[k].name) =>
            /\ popen_env["POD_HOME"] = POD_CODE_DIR(pods[k])
            /\ popen_env["OBS_DATA"] = POD_OBS_DATA(pods[k])
            /\ popen_env["WK_DIR"] = POD_WK_DIR(pods[k])
            /\ \A n \in DOMAIN popen_env :
                  \/ n \in base_environ \cup {"POD_HOME", "OBS_DATA", "WK_DIR"}
                  \/ \E v \in 1..Len(pods[k].pod_env_vars) : pods[k].pod_env_vars[v].key = n

\* ------------------------------------------------------------------------
\* More claims about _check_for_varlist_files

\* the paths of the alternates of an item whose files are present, in the
\* order of the item's alternates
RECURSIVE present_alternates(_, _, _)
present_alternates(item, a, fs) ==
    IF a > Len(item.alternates) THEN <<>>
    ELSE (IF alternate_path(item, a) \in fs THEN <<alternate_path(item, a)>> ELSE <<>>)
            \o present_alternates(item, a + 1, fs)

\* C27: an iteration of the loop over an entry whose own file is present
\* appends that path and nothing else to found_list and leaves missing_list
\* alone, whether the entry is required or not; an iteration over a required
\* entry whose file is absent and that has alternates appends to found_list
\* the paths of the alternates that are present, in the order of the list.
C27_PrimaryOrPresentAlternates ==
    [][(rpc = "loop" /\ idx' = idx + 1) =>
          LET item == varlist_arg[idx + 1]
          IN /\ isfile(primary_path(item), files) =>
                   /\ found_list' = found_list \o <<primary_path(item)>>
                   /\ missing_list' = missing_list
             /\ (~isfile(primary_path(item), files) /\ item.required
                    /\ Len(item.alternates) > 0) =>
                   found_list' = found_list \o present_alternates(item, 1, files)]_vars

\* the call returned for a list that ends with a required entry, absent, with
\* two different alternates, both present, and begins with an entry that is
\* present and has none
C27_Witness ==
    /\ rpc = "returned"
    /\ Len(varlist_arg) = 2
    /\ isfile(primary_path(varlist_arg[1]), files)
    /\ LET item == varlist_arg[2]
       IN /\ item.required
          /\ ~isfile(primary_path(item), files)
          /\ Len(item.alternates) = 2
          /\ item.alternates[1] # item.alternates[2]
          /\ isfile(alternate_path(item, 1), files)
          /\ isfile(alternate_path(item, 2), files)
          /\ ret.found_files = <<primary_path(varlist_arg[1]), alternate_path(item, 1),
                                 alternate_path(item, 2)>>

\* C28: for every list and file system a call is entered with, the calls of
\* _check_for_varlist_files nest at most one deep (the count ends before its
\* fuel does): the call made for an alternate never makes a call itself.
C28_RecursionOneLevel ==
    (rpc = "loop" /\ idx = 0) => call_depth(varlist_arg, files, MaxVars + MaxAlts) <= 1

\* the call returned for a list with an entry that names itself as alternate
\* and two entries that name each other, all absent
C28_Witness ==
    /\ rpc = "returned"
    /\ \E k \in 1..Len(varlist_arg) :
          /\ enters_alternates(varlist_arg[k], files)
          /\ varlist_arg[k].name_in_model \in Range(varlist_arg[k].alternates)
    /\ \E j, k \in 1..Len(varlist_arg) :
          /\ j # k
          /\ enters_alternates(varlist_arg[j], files)
          /\ enters_alternates(varlist_arg[k], files)
          /\ varlist_arg[k].name_in_model \in Range(varlist_arg[j].alternates)
          /\ varlist_arg[j].name_in_model \in Range(varlist_arg[k].alternates)
    /\ call_depth(varlist_arg, files, MaxVars + MaxAlts) = 1

\* ------------------------------------------------------------------------
\* Claim about util.Singleton (checked under SpecSingleton)

\* C30: the constructions of a class since its last _reset that returned,
\* returned one and the same instance, the one the first of them created
\* (with the attributes that construction gave it, whatever a later one
\* asked for); that instance is the one in _instances; a _reset of a class
\* leaves the entry of every other class in _instances as it was.
C30_OneInstancePerClass ==
    /\ [](/\ \A cls \in Classes :
                /\ Cardinality(returned[cls]) <= 1
                /\ first_instance[cls] = instances[cls]
          /\ (result.op = "construct" /\ ~result.raised) =>
                /\ result.instance.id # 0
                /\ result.instance = first_instance[result.cls]
                /\ returned[result.cls] = {first_instance[result.cls].id})
    /\ [][\A cls \in Classes :
             (result'.op = "reset" /\ result'.cls # cls) =>
                 instances'[cls] = instances[cls]]_vars

\* a construction of PathManager returned the instance an earlier one
\* created, not what its own arguments asked for, while VariableTranslator
\* has an instance of its own and instances were created before (a _reset
\* took place)
C30_Witness ==
    /\ result.op = "construct"
    /\ result.cls = "PathManager"
    /\ ~result.raised
    /\ result.asked # <<>>
    /\ result.asked # result.instance.attrs
    /\ instances["VariableTranslator"].id # 0
    /\ result.instance.id > 1
    /\ created > 2

\* ------------------------------------------------------------------------
\* Claim about util.BiDict (checked under SpecBiDict)

\* the keys inverse lists for value (none when inverse has no entry for it)
inverse_keys(value) ==
    IF value \in DOMAIN bidict.inverse THEN bidict.inverse[value] ELSE <<>>

\* a key is listed for a value exactly when the dict maps it to the value,
\* and no list has a key twice
inverse_agrees ==
    /\ \A key \in BiKeys, value \in BiValues :
          key \in Range(inverse_keys(value))
              <=> (key \in DOMAIN bidict.dict /\ bidict.dict[key] = value)
    /\ \A value \in DOMAIN bidict.inverse :
          \A m, n \in 1..Len(bidict.inverse[value]) :
              bidict.inverse[value][m] = bidict.inverse[value][n] => m = n

\* C31 (as stated): the inverse agrees with the dict, no key is listed twice
\* and inverse has no entry whose list is empty.
C31_InverseAgrees ==
    /\ inverse_agrees
    /\ \A value \in DOMAIN bidict.inverse : bidict.inverse[value] # <<>>

====
